---- MODULE Spec2Model ----
(***************************************************************************)
(* Model of the rest-generate project generator (src/utils/generator.ts    *)
(* and its caller src/commands/create.ts).                                 *)
(*                                                                         *)
(* Paths are relative to projectDir and written as sequences of path       *)
(* components, the way path.join(projectDir, "src", "models", ...) builds  *)
(* them: <<>> is projectDir itself, <<"src", "models">> is src/models.     *)
(* A text file is the sequence of its lines (the text split at "\n").      *)
(* Two characters of the generated text cannot be written in a string      *)
(* here: the grave accent is written ~, and the box-drawing characters of  *)
(* the readme's structure diagram are written |-- and ~--.                 *)
(***************************************************************************)
EXTENDS Integers, Sequences, FiniteSets, TLC

VARIABLES
    options,   \* the ProjectOptions handed to generateProject
    pc,        \* where the run is
    step,      \* how many entries of the write sequence have been gone through
    dirs,      \* the directories that exist under (and including) projectDir
    files,     \* the files that exist under projectDir: path -> content
    log,       \* the paths written by this run, in the order of the writes
    tasks,     \* the fs.ensureDir calls handed to Promise.all: dir -> status
    err,       \* whether an I/O call or a prompt of the run has thrown
    ret,       \* the value a directly called pure function returned
    answers,   \* the locals of createProject the prompts have filled so far
    exit,      \* the exit code of the process, or Running
    target     \* the tree projectDir held when the command was started

vars == <<options, pc, step, dirs, files, log, tasks, err, ret, answers, exit, target>>

\* The variables only the command around generateProject writes.
cliVars == <<answers, exit, target>>

\* Largest number of entries of options.features in an orchestrated run.
MaxFeatures == 2

\* The one project name used: options.name only ever appears inside text.
ProjectName == "demo"

(***************************************************************************)
(* src/types/project.ts: the option universe                               *)
(***************************************************************************)
Undefined == "undefined"

Framework == {"express"}

Database == {"mongodb", "none"}

ORM == {"mongoose", "none"}

Language == {"typescript", "javascript"}

ValidationLibrary == {"joi", "zod"}

AuthStrategy == {"jwt", "session", "oauth"}

Feature == {"auth", "validation", "swagger", "docker", "tests"}

\* Every value of the ProjectOptions interface (optional fields may be
\* undefined whatever features holds: the type does not tie them together).
ProjectOptions ==
    [name : {ProjectName},
     language : Language,
     framework : Framework,
     database : Database,
     orm : ORM,
     features : SUBSET Feature,
     validationLibrary : ValidationLibrary \cup {Undefined},
     authStrategy : AuthStrategy \cup {Undefined}]

\* Type guards of generator.ts.
isDatabaseMongoDB(database) == database = "mongodb"

\* isORMMongoose comparing against a literal no ORM value has.
isORMMongooseNever(orm) == orm = "mongose"

isORMMongoose(orm) == orm = "mongoose"

isFrameworkExpress(framework) == framework = "express"

isDatabaseNone(database) == database = "none"

isORMNone(orm) == orm = "none"

(***************************************************************************)
(* generateProjectStructure: the list of directories to create             *)
(***************************************************************************)
\* OrmDirName with the ORM test lost: every ORM gets the fallback name.
OrmDirNameFallbackOnly(orm) == "models"

\* What the ORM-named directory is called.
OrmDirName(orm) == IF orm = "mongoose" THEN "schemas" ELSE "models"

\* ProjectDirList with the ORM directory pushed outside the database test.
ProjectDirListOrmAlways(o) ==
    << <<"src">>,
       <<"src", "controllers">>,
       <<"src", "routes">>,
       <<"src", "middleware">>,
       <<"src", "utils">>,
       <<"src", "config">> >>
    \o (IF o.database # "none" THEN << <<"src", "models">> >> ELSE << >>)
    \o (IF o.orm # "none"
          THEN << <<"src", IF o.orm = "mongoose" THEN "schemas" ELSE "models">> >>
          ELSE << >>)
    \o (IF "auth" \in o.features THEN << <<"src", "auth">> >> ELSE << >>)
    \o (IF "tests" \in o.features
          THEN << <<"tests">>, <<"tests", "unit">>, <<"tests", "integration">> >>
          ELSE << >>)

\* The dirs array, in push order.
ProjectDirList(o) ==
    << <<"src">>,
       <<"src", "controllers">>,
       <<"src", "routes">>,
       <<"src", "middleware">>,
       <<"src", "utils">>,
       <<"src", "config">> >>
    \o (IF o.database # "none"
          THEN << <<"src", "models">> >>
               \o (IF o.orm # "none"
                     THEN << <<"src", OrmDirName(o.orm)>> >>
                     ELSE << >>)
          ELSE << >>)
    \o (IF "auth" \in o.features THEN << <<"src", "auth">> >> ELSE << >>)
    \o (IF "tests" \in o.features
          THEN << <<"tests">>, <<"tests", "unit">>, <<"tests", "integration">> >>
          ELSE << >>)

Range(s) == {s[i] : i \in DOMAIN s}

ProjectDirs(o) == Range(ProjectDirList(o))

\* fs.ensureDir(p) is mkdir -p: p and every ancestor of p down to projectDir.
EnsuredDirs(p) == {SubSeq(p, 1, n) : n \in 0..Len(p)}

\* The directory a file path lives in.
Parent(p) == SubSeq(p, 1, Len(p) - 1)

(***************************************************************************)
(* getDependencies / getDevDependencies                                    *)
(***************************************************************************)
\* One assignment dependencies[name] = version, at a source line.
Dep(name, version, line) == [name |-> name, version |-> version, line |-> line]

\* The assignments getDependencies performs, in execution order.
DependencyInsertions(o) ==
    << Dep("@types/node", "latest", 338), Dep("dotenv", "latest", 339) >>
    \o (IF o.framework = "express"
          THEN << Dep("express", "latest", 345), Dep("cors", "latest", 346),
                  Dep("helmet", "latest", 347), Dep("morgan", "latest", 348) >>
          ELSE << >>)
    \o (IF isDatabaseMongoDB(o.database)
          THEN << Dep("mongodb", "latest", 367) >> ELSE << >>)
    \o (IF isORMMongoose(o.orm)
          THEN << Dep("mongoose", "latest", 384) >> ELSE << >>)
    \o (IF "auth" \in o.features
          THEN << Dep("passport", "latest", 404),
                  Dep("express-session", "latest", 405) >>
               \o (IF o.authStrategy = "jwt"
                     THEN << Dep("passport-jwt", "latest", 408),
                             Dep("jsonwebtoken", "latest", 409) >>
                   ELSE IF o.authStrategy = "session"
                     THEN << Dep("connect-mongo", "latest", 411),
                             Dep("express-session", "latest", 412),
                             Dep("passport-local", "latest", 413) >>
                   ELSE IF o.authStrategy = "oauth"
                     THEN << Dep("passport-google-oauth20", "latest", 415),
                             Dep("passport-github2", "latest", 416) >>
                   ELSE << >>)
               \o << Dep("bcrypt", "latest", 419) >>
          ELSE << >>)
    \o (IF "validation" \in o.features
          THEN (IF o.validationLibrary = "joi"
                  THEN << Dep("joi", "latest", 425) >>
                ELSE IF o.validationLibrary = "zod"
                  THEN << Dep("zod", "latest", 427) >>
                ELSE << >>)
          ELSE << >>)
    \o (IF "swagger" \in o.features
          THEN << Dep("swagger-ui-express", "latest", 433),
                  Dep("swagger-jsdoc", "latest", 434) >>
          ELSE << >>)

\* The assignments getDevDependencies performs, in execution order.
DevDependencyInsertions(o) ==
    (IF o.language = "typescript"
       THEN << Dep("typescript", "^5.2.2", 448), Dep("@types/node", "^20.6.3", 449),
               Dep("ts-node", "^10.9.1", 450), Dep("nodemon", "^3.0.1", 451),
               Dep("tsconfig-paths", "^4.2.0", 452), Dep("rimraf", "^5.0.1", 453) >>
       ELSE << Dep("nodemon", "^3.0.1", 456) >>)
    \o (IF o.language = "typescript"
          THEN << Dep("eslint", "^8.49.0", 461),
                  Dep("@typescript-eslint/eslint-plugin", "^6.7.2", 462),
                  Dep("@typescript-eslint/parser", "^6.7.2", 463),
                  Dep("prettier", "^3.0.3", 464) >>
          ELSE << Dep("eslint", "^8.49.0", 466), Dep("prettier", "^3.0.3", 467) >>)
    \o (IF "tests" \in o.features
          THEN << Dep("jest", "^29.7.0", 489) >>
               \o (IF o.language = "typescript"
                     THEN << Dep("ts-jest", "^29.1.1", 491),
                             Dep("@types/jest", "^29.5.5", 492) >>
                     ELSE << >>)
               \o (IF isFrameworkExpress(o.framework)
                     THEN << Dep("supertest", "^6.3.3", 495) >>
                          \o (IF o.language = "typescript"
                                THEN << Dep("@types/supertest", "^2.0.12", 497) >>
                                ELSE << >>)
                     ELSE << >>)
          ELSE << >>)

\* A Record<string, string> after the assignments of ins: the last write wins.
RecordOf(ins) ==
    [k \in {ins[i].name : i \in DOMAIN ins} |->
        LET last == CHOOSE i \in DOMAIN ins :
                       /\ ins[i].name = k
                       /\ \A j \in DOMAIN ins : ins[j].name = k => j <= i
        IN  ins[last].version]

getDependencies(o) == RecordOf(DependencyInsertions(o))

getDevDependencies(o) == RecordOf(DevDependencyInsertions(o))

(***************************************************************************)
(* generatePackageJson: the object handed to fs.writeJSON                  *)
(***************************************************************************)
MainFile(o) == IF o.language = "typescript" THEN "dist/index.js" ELSE "src/index.js"

SrcExt(o) == IF o.language = "typescript" THEN "ts" ELSE "js"

PackageScripts(o) ==
    [start |-> "node " \o MainFile(o),
     dev   |-> IF o.language = "typescript"
                 THEN "ts-node-dev --respawn --transpile-only src/index." \o SrcExt(o)
                 ELSE "nodemon src/index." \o SrcExt(o),
     build |-> IF o.language = "typescript"
                 THEN "tsc"
                 ELSE "echo \"No build step needed for JavaScript\"",
     test  |-> IF "tests" \in o.features
                 THEN "jest"
                 ELSE "echo \"No tests configured\""]

PackageJson(o) ==
    [name |-> o.name,
     version |-> "1.0.0",
     description |-> "A Node.js REST API",
     type |-> "module",
     main |-> MainFile(o),
     scripts |-> PackageScripts(o),
     dependencies |-> getDependencies(o),
     devDependencies |-> getDevDependencies(o)]

(***************************************************************************)
(* generateEnvFile: the envContent array and the ignore file               *)
(***************************************************************************)
\* EnvContent with the session secret pushed for the session strategy only.
EnvContentSessionOnly(o) ==
    << "# Server Configuration", "PORT=3000", "NODE_ENV=development", "" >>
    \o (IF o.database # "none"
          THEN << "# Database Configuration" >>
               \o (IF o.database = "mongodb"
                     THEN << "MONGODB_URI=mongodb://localhost:27017/" \o o.name >>
                     ELSE << >>)
               \o << "" >>
          ELSE << >>)
    \o (IF "auth" \in o.features
          THEN << "# Authentication",
                  "JWT_SECRET=your-secret-key",
                  "JWT_EXPIRES_IN=1d" >>
               \o (IF o.authStrategy = "session"
                     THEN << "SESSION_SECRET=your-session-secret" >>
                     ELSE << >>)
               \o (IF o.authStrategy = "oauth"
                     THEN << "# OAuth Configuration",
                             "GOOGLE_CLIENT_ID=your-google-client-id",
                             "GOOGLE_CLIENT_SECRET=your-google-client-secret",
                             "GITHUB_CLIENT_ID=your-github-client-id",
                             "GITHUB_CLIENT_SECRET=your-github-client-secret" >>
                     ELSE << >>)
               \o << "" >>
          ELSE << >>)

EnvContent(o) ==
    << "# Server Configuration", "PORT=3000", "NODE_ENV=development", "" >>
    \o (IF o.database # "none"
          THEN << "# Database Configuration" >>
               \o (IF o.database = "mongodb"
                     THEN << "MONGODB_URI=mongodb://localhost:27017/" \o o.name >>
                     ELSE << >>)
               \o << "" >>
          ELSE << >>)
    \o (IF "auth" \in o.features
          THEN << "# Authentication",
                  "JWT_SECRET=your-secret-key",
                  "JWT_EXPIRES_IN=1d" >>
               \o (IF o.authStrategy = "session" \/ o.authStrategy = "oauth"
                     THEN << "SESSION_SECRET=your-session-secret" >>
                     ELSE << >>)
               \o (IF o.authStrategy = "oauth"
                     THEN << "# OAuth Configuration",
                             "GOOGLE_CLIENT_ID=your-google-client-id",
                             "GOOGLE_CLIENT_SECRET=your-google-client-secret",
                             "GITHUB_CLIENT_ID=your-github-client-id",
                             "GITHUB_CLIENT_SECRET=your-github-client-secret" >>
                     ELSE << >>)
               \o << "" >>
          ELSE << >>)

GitignoreContent == << "node_modules", "dist", ".env", "" >>

(***************************************************************************)
(* copyTemplateFiles: tsconfig.json and README.md                          *)
(***************************************************************************)
\* The tsconfig object handed to fs.writeJSON.
Tsconfig ==
    [compilerOptions |->
        [target |-> "ES2020",
         module |-> "NodeNext",
         moduleResolution |-> "NodeNext",
         esModuleInterop |-> TRUE,
         strict |-> TRUE,
         outDir |-> "./dist",
         rootDir |-> "./src",
         resolveJsonModule |-> TRUE,
         skipLibCheck |-> TRUE,
         forceConsistentCasingInFileNames |-> TRUE],
     include |-> << "src/**/*" >>,
     exclude |-> << "node_modules", "**/*.test.ts", "dist" >>]

\* A template placeholder that stands alone on its line contributes the lines
\* of its value: the single empty line when the value is the empty string.
ReadmeContent(o) ==
    << "# " \o o.name,
       "",
       "A Node.js REST API project built with " \o o.framework
           \o (IF o.database # "none" THEN " and " \o o.database ELSE "") \o ".",
       "",
       "## Getting Started",
       "",
       "### Prerequisites",
       "",
       "- Node.js (v16 or higher)",
       "- npm or yarn",
       (IF o.database # "none" THEN "- " \o o.database \o " database" ELSE ""),
       "",
       "### Installation",
       "",
       "1. Clone the repository",
       "2. Install dependencies",
       "",
       "~~~bash",
       "npm install",
       "~~~",
       "",
       "3. Set up environment variables",
       "   - Copy ~.env.example~ to ~.env~ and update the values",
       "",
       "4. Start the development server",
       "",
       "~~~bash",
       "npm run dev",
       "~~~",
       "",
       "## Scripts",
       "",
       "- ~npm run dev~: Start development server",
       "- ~npm run build~: Build for production",
       "- ~npm start~: Start production server",
       (IF "tests" \in o.features THEN "- ~npm test~: Run tests" ELSE ""),
       "",
       "## Project Structure",
       "",
       "~~~",
       "src/",
       "|-- controllers/    # Request handlers",
       "|-- routes/         # API routes",
       "|-- middleware/     # Express/Fastify/Koa middleware",
       "|-- models/         # Data models",
       "|-- config/         # Configuration files",
       "~-- utils/          # Utility functions",
       "~~~",
       "" >>

(***************************************************************************)
(* generateIndexFile                                                       *)
(***************************************************************************)
FileExtension(o) == IF o.language = "typescript" THEN ".ts" ELSE ".js"

TypeDefs(o) == IF o.language = "typescript" THEN ": any" ELSE ""

MongoUrl(o) == "mongodb://localhost:27017/" \o o.name

\* Lines 712-730: the import header, one placeholder per line.
IndexImports(o) ==
    << "import express from 'express';",
       "import cors from 'cors';",
       "import helmet from 'helmet';",
       "import morgan from 'morgan';",
       "import 'dotenv/config';",
       (IF o.database = "mongodb" THEN "import mongoose from 'mongoose';" ELSE ""),
       (IF "auth" \in o.features THEN "import passport from 'passport';" ELSE ""),
       (IF "auth" \in o.features /\ o.authStrategy = "session"
          THEN "import session from 'express-session';" ELSE ""),
       (IF "auth" \in o.features /\ o.authStrategy = "session"
              /\ o.database = "mongodb"
          THEN "import MongoStore from 'connect-mongo';" ELSE "") >>

\* Lines 735-744: the database-connection block.
IndexConnect(o) ==
    << "// Connect to MongoDB" >>
    \o (IF o.database = "mongodb"
          THEN << "",
                  "mongoose.connect(process.env.MONGODB_URI || '" \o MongoUrl(o) \o "')",
                  "  .then(() => console.log('Connected to MongoDB'))",
                  "  .catch(err => console.error('MongoDB connection error:', err));",
                  "" >>
          ELSE << "" >>)

\* Lines 752-783: the session + passport initialisation block.
IndexAuth(o) ==
    IF "auth" \in o.features /\ o.authStrategy = "session"
      THEN << "",
              "// Session configuration",
              "app.use(session({",
              "  secret: process.env.SESSION_SECRET || 'your-secret-key',",
              "  resave: false,",
              "  saveUninitialized: false,",
              "  " >>
           \o (IF o.database = "mongodb"
                 THEN << "  store: MongoStore.create({",
                         "    mongoUrl: process.env.MONGODB_URI || '" \o MongoUrl(o) \o "'",
                         "  })," >>
                 ELSE << >>)
           \o << "  cookie: {",
                 "    maxAge: 1000 * 60 * 60 * 24 // 1 day",
                 "  }",
                 "}));",
                 "",
                 "// Initialize Passport",
                 "app.use(passport.initialize());",
                 "app.use(passport.session());",
                 "" >>
    ELSE IF "auth" \in o.features
      THEN << "",
              "// Initialize Passport",
              "app.use(passport.initialize());",
              "" >>
    ELSE << "" >>

\* Lines 785-814: the swagger block.
IndexSwagger(o) ==
    IF "swagger" \in o.features
      THEN << "",
              "// Swagger documentation",
              "import swaggerJSDoc from 'swagger-jsdoc';",
              "import swaggerUi from 'swagger-ui-express';",
              "",
              "const swaggerOptions = {",
              "  definition: {",
              "    openapi: '3.0.0',",
              "    info: {",
              "      title: '" \o o.name \o " API',",
              "      version: '1.0.0',",
              "      description: 'API documentation for " \o o.name \o "',",
              "    },",
              "    servers: [",
              "      {",
              "        url: 'http://localhost:' + port,",
              "        description: 'Development server',",
              "      },",
              "    ],",
              "  },",
              "  apis: ['./src/routes/*." \o FileExtension(o) \o "'],",
              "};",
              "",
              "const swaggerSpec = swaggerJSDoc(swaggerOptions);",
              "app.use('/api-docs', swaggerUi.serve, swaggerUi.setup(swaggerSpec));",
              "" >>
      ELSE << "" >>

IndexContent(o) ==
    IndexImports(o)
    \o << "",
          "const app = express();",
          "const port = process.env.PORT || 3000;",
          "" >>
    \o IndexConnect(o)
    \o << "",
          "// Middleware",
          "app.use(cors());",
          "app.use(helmet());",
          "app.use(morgan('dev'));",
          "app.use(express.json());",
          "" >>
    \o IndexAuth(o)
    \o << "" >>
    \o IndexSwagger(o)
    \o << "",
          "// Routes",
          "app.get('/', (req, res" \o TypeDefs(o) \o ") => {",
          "  res.json({ message: 'Welcome to " \o o.name \o " API' });",
          "});",
          "",
          "// Start server",
          "app.listen(port, () => {",
          "  console.log(~Server running on port ${port}~);",
          "});",
          "" >>

(***************************************************************************)
(* generateBasicFiles: controller, route and model stubs                   *)
(***************************************************************************)
ControllerContent ==
    << "/**",
       " * Example controller",
       " */",
       "export const getHello = async (req, res) => {",
       "  return res.json({ message: 'Hello World!' });",
       "};",
       "",
       "export const createItem = async (req, res) => {",
       "  const item = req.body;",
       "  // Implementation would depend on the database and ORM",
       "  return res.status(201).json({ message: 'Item created', item });",
       "};",
       "" >>

RouteContent(o) ==
    IF isFrameworkExpress(o.framework)
      THEN << "import { Router } from 'express';",
              "import { getHello, createItem } from '../controllers/example.controller.js';",
              "",
              "const router = Router();",
              "",
              "router.get('/hello', getHello);",
              "router.post('/items', createItem);",
              "",
              "export default router;",
              "" >>
      ELSE << "" >>

ModelContent(o) ==
    IF isORMMongoose(o.orm)
      THEN << "import mongoose from 'mongoose';",
              "",
              "const exampleSchema = new mongoose.Schema({",
              "  name: {",
              "    type: String,",
              "    required: true",
              "  },",
              "  description: {",
              "    type: String",
              "  },",
              "  createdAt: {",
              "    type: Date,",
              "    default: Date.now",
              "  }",
              "});",
              "",
              "export const Example = mongoose.model('Example', exampleSchema);",
              "" >>
      ELSE << "// Example model file",
              "// Implementation depends on your ORM and database choice",
              "",
              "export interface Example {",
              "  id?: number;",
              "  name: string;",
              "  description?: string;",
              "  createdAt?: Date;",
              "}",
              "",
              "// Example repository functions",
              "export const findAll = async () => {",
              "  // Implementation depends on your database and ORM choice",
              "  return [];",
              "};",
              "",
              "export const findById = async (id: number) => {",
              "  // Implementation depends on your database and ORM choice",
              "  return null;",
              "};",
              "",
              "export const create = async (data: Omit<Example, 'id' | 'createdAt'>) => {",
              "  // Implementation depends on your database and ORM choice",
              "  return { ...data, id: 1, createdAt: new Date() };",
              "};",
              "" >>

(***************************************************************************)
(* generateProject: the writes it awaits, in call order                    *)
(***************************************************************************)
WriteOf(path, content) == [path |-> path, content |-> content]

\* generatePackageJson: fs.writeJSON(package.json).
PackageJsonWrites(o) == << WriteOf(<<"package.json">>, PackageJson(o)) >>

\* generateEnvFile: .env.example, then .env, then .gitignore.
EnvFileWrites(o) ==
    << WriteOf(<<".env.example">>, EnvContent(o)),
       WriteOf(<<".env">>, EnvContent(o)),
       WriteOf(<<".gitignore">>, GitignoreContent) >>

\* generateBasicFiles: controller, route, and the model unless database=none.
BasicFilesWrites(o) ==
    << WriteOf(<<"src", "controllers", "example.controller.ts">>, ControllerContent),
       WriteOf(<<"src", "routes", "example.routes.ts">>, RouteContent(o)) >>
    \o (IF ~isDatabaseNone(o.database)
          THEN << WriteOf(<<"src", "models", "example.model.ts">>, ModelContent(o)) >>
          ELSE << >>)

\* copyTemplateFiles: tsconfig.json, README.md, generateIndexFile,
\* generateBasicFiles.
TemplateWrites(o) ==
    << WriteOf(<<"tsconfig.json">>, Tsconfig),
       WriteOf(<<"README.md">>, ReadmeContent(o)),
       WriteOf(<<"src", "index" \o FileExtension(o)>>, IndexContent(o)) >>
    \o BasicFilesWrites(o)

\* generateProject, after the directories: package.json, env files, templates.
WriteSequence(o) == PackageJsonWrites(o) \o EnvFileWrites(o) \o TemplateWrites(o)

\* AfterWriteError with the error swallowed: the run goes on to the next write.
AfterWriteErrorSwallowed(s) == [pc |-> "writing", step |-> s + 1]

\* An await of generateProject that throws: nothing catches it there, the
\* promise of generateProject rejects and no later statement runs.
AfterWriteError(s) == [pc |-> "rejected", step |-> s]

\* AllSettled with the await on Promise.all lost: the run goes on at once.
AllSettledNotAwaited(t) == TRUE

\* Promise.all(dirs.map(...)) resolves once every ensureDir has resolved.
AllSettled(t) == \A d \in DOMAIN t : t[d] = "done"

(***************************************************************************)
(* The run of generateProject(projectDir, options)                         *)
(***************************************************************************)
\* The exit codes the process has ended with: none while it runs.
Running == {}

\* The locals of createProject before any prompt was answered: none is
\* declared yet.
NoAnswers == << >>

\* projectDir does not exist.
NoTarget == [dirs |-> {}, files |-> << >>]

NoRet == [fn |-> "none", outcome |-> "none", value |-> << >>]

\* Options of an orchestrated run: at most MaxFeatures features, the optional
\* fields as createProject leaves them (each is asked for only when its
\* feature is selected, and is undefined otherwise), the database and the ORM
\* over their whole types.
RunOptions ==
    {o \in ProjectOptions :
        /\ Cardinality(o.features) <= MaxFeatures
        /\ (o.validationLibrary # Undefined) <=> ("validation" \in o.features)
        /\ (o.authStrategy # Undefined) <=> ("auth" \in o.features)}

Init ==
    /\ options \in RunOptions
    /\ pc = "ensureProjectDir"
    /\ step = 0
    /\ dirs = {}
    /\ files = << >>
    /\ log = << >>
    /\ tasks = << >>
    /\ err = FALSE
    /\ ret = NoRet
    /\ answers = NoAnswers
    /\ exit = Running
    /\ target = NoTarget

\* await fs.ensureDir(projectDir)
EnsureProjectDir ==
    /\ pc = "ensureProjectDir"
    /\ dirs' = dirs \cup EnsuredDirs(<< >>)
    /\ pc' = "structure"
    /\ UNCHANGED <<options, step, files, log, tasks, err, ret, cliVars>>

EnsureProjectDirFail ==
    /\ pc = "ensureProjectDir"
    /\ pc' = "rejected"
    /\ err' = TRUE
    /\ UNCHANGED <<options, step, dirs, files, log, tasks, ret, cliVars>>

\* generateProjectStructure up to the await: dirs.map starts every ensureDir.
DispatchDirs ==
    /\ pc = "structure"
    /\ tasks' = [d \in ProjectDirs(options) |-> "pending"]
    /\ pc' = "mkdirs"
    /\ UNCHANGED <<options, step, dirs, files, log, err, ret, cliVars>>

\* One ensureDir finishes. The calls still in flight when Promise.all has
\* rejected are not cancelled: they go on until the process exits.
DirDone(d) ==
    /\ pc \in {"mkdirs", "rejected"}
    /\ d \in DOMAIN tasks
    /\ tasks[d] = "pending"
    /\ dirs' = dirs \cup EnsuredDirs(d)
    /\ tasks' = [tasks EXCEPT ![d] = "done"]
    /\ UNCHANGED <<options, pc, step, files, log, err, ret, cliVars>>

\* One ensureDir throws: Promise.all rejects at once. The call that threw is
\* left unsettled: its directory can still come to exist through another
\* call's mkdir -p (ensureDir of tests/unit creates tests).
DirFail(d) ==
    /\ pc = "mkdirs"
    /\ d \in DOMAIN tasks
    /\ tasks[d] = "pending"
    /\ pc' = "rejected"
    /\ err' = TRUE
    /\ UNCHANGED <<options, step, dirs, files, log, tasks, ret, cliVars>>

\* Promise.all resolves; generateProject goes on to its writes.
DirsReady ==
    /\ pc = "mkdirs"
    /\ AllSettled(tasks)
    /\ pc' = "writing"
    /\ UNCHANGED <<options, step, dirs, files, log, tasks, err, ret, cliVars>>

\* A write that leaves a file that is already there as it is.
WrittenKeepsExisting(fs, w) == fs @@ (w.path :> w.content)

\* fs.writeFile / fs.writeJSON: the path holds the new content, whatever it
\* held before.
Written(fs, w) == (w.path :> w.content) @@ fs

\* The next fs.writeFile / fs.writeJSON succeeds: it needs the directory of
\* the file to exist, and replaces whatever the path held.
Write ==
    /\ pc = "writing"
    /\ step < Len(WriteSequence(options))
    /\ LET w == WriteSequence(options)[step + 1]
       IN  /\ Parent(w.path) \in dirs
           /\ files' = Written(files, w)
           /\ log' = Append(log, w.path)
    /\ step' = step + 1
    /\ UNCHANGED <<options, pc, dirs, tasks, err, ret, cliVars>>

\* The next write throws (no such directory, no permission, disk full).
WriteFail ==
    /\ pc = "writing"
    /\ step < Len(WriteSequence(options))
    /\ err' = TRUE
    /\ pc' = AfterWriteError(step).pc
    /\ step' = AfterWriteError(step).step
    /\ UNCHANGED <<options, dirs, files, log, tasks, ret, cliVars>>

\* Every write was awaited: generateProject resolves.
Finish ==
    /\ pc = "writing"
    /\ step >= Len(WriteSequence(options))
    /\ pc' = "resolved"
    /\ UNCHANGED <<options, step, dirs, files, log, tasks, err, ret, cliVars>>

\* createProject: catch (error) { console.error(...); process.exit(1) }
CreateProjectCatch ==
    /\ pc = "rejected"
    /\ pc' = "exit1"
    /\ exit' = {1}
    /\ UNCHANGED <<options, step, dirs, files, log, tasks, err, ret, answers, target>>

Next ==
    \/ EnsureProjectDir
    \/ EnsureProjectDirFail
    \/ DispatchDirs
    \/ \E d \in DOMAIN tasks : DirDone(d)
    \/ \E d \in DOMAIN tasks : DirFail(d)
    \/ DirsReady
    \/ Write
    \/ WriteFail
    \/ Finish
    \/ CreateProjectCatch

Spec == Init /\ [][Next]_vars

(***************************************************************************)
(* The pure functions of the generator, called directly on any options     *)
(***************************************************************************)
\* A call that ran to its return statement. None of the functions below has
\* a throw statement or a call that can throw.
Returned(fn, value) == [fn |-> fn, outcome |-> "returned", value |-> value]

InitPure ==
    /\ options \in ProjectOptions
    /\ pc = "call"
    /\ step = 0
    /\ dirs = {}
    /\ files = << >>
    /\ log = << >>
    /\ tasks = << >>
    /\ err = FALSE
    /\ ret = NoRet
    /\ answers = NoAnswers
    /\ exit = Running
    /\ target = NoTarget

CallGetDependencies ==
    /\ pc = "call"
    /\ ret' = Returned("getDependencies", getDependencies(options))
    /\ pc' = "returned"
    /\ UNCHANGED <<options, step, dirs, files, log, tasks, err, cliVars>>

CallGetDevDependencies ==
    /\ pc = "call"
    /\ ret' = Returned("getDevDependencies", getDevDependencies(options))
    /\ pc' = "returned"
    /\ UNCHANGED <<options, step, dirs, files, log, tasks, err, cliVars>>

\* The dirs array of generateProjectStructure.
CallProjectDirs ==
    /\ pc = "call"
    /\ ret' = Returned("dirs", ProjectDirList(options))
    /\ pc' = "returned"
    /\ UNCHANGED <<options, step, dirs, files, log, tasks, err, cliVars>>

\* The (path, content) pairs the generator computes for its writes.
CallSynthesize ==
    /\ pc = "call"
    /\ ret' = Returned("files", WriteSequence(options))
    /\ pc' = "returned"
    /\ UNCHANGED <<options, step, dirs, files, log, tasks, err, cliVars>>

NextPure ==
    \/ CallGetDependencies
    \/ CallGetDevDependencies
    \/ CallProjectDirs
    \/ CallSynthesize

SpecPure == InitPure /\ [][NextPure]_vars

(***************************************************************************)
(* The create <project-name> command: createProject and its callers        *)
(***************************************************************************)
\* The object createProject has not built yet.
NoOptions ==
    [name |-> ProjectName,
     language |-> Undefined,
     framework |-> Undefined,
     database |-> Undefined,
     orm |-> Undefined,
     features |-> {},
     validationLibrary |-> Undefined,
     authStrategy |-> Undefined]

\* A package.json left in projectDir by something else.
StaleManifest == [name |-> "stale"]

\* What projectDir may hold when the command starts: nothing (it does not
\* exist), or a directory with a manifest in it.
Targets ==
    { NoTarget,
      [dirs |-> {<< >>}, files |-> (<<"package.json">> :> StaleManifest)] }

\* The choices of each select and checkbox prompt.
LanguageChoices == {"typescript", "javascript"}

FrameworkChoices == {"express"}

DatabaseChoices == {"mongodb"}

\* ormChoices with the commented-out choice "None" offered.
OrmChoicesWithNone == {"mongoose", "none"}

OrmChoices == {"mongoose"}

FeatureChoices == {"auth", "validation", "swagger", "docker", "tests"}

ValidationLibraryChoices == {"joi", "zod"}

AuthStrategyChoices == {"jwt", "session", "oauth"}

\* if (!shouldContinue) without its process.exit(0): the function goes on.
DeclinedFallsThrough == [pc |-> "language", exit |-> Running]

\* if (!shouldContinue) { console.log(...); process.exit(0); }
Declined == [pc |-> "cancelled", exit |-> {0}]

\* The locals once a prompt has been answered.
Answered(local, value) == (local :> value) @@ answers

\* The prompts awaited inside the try block of createProject.
TryPrompts ==
    {"language", "framework", "database", "orm", "features",
     "validationLibrary", "authStrategy"}

InitCli ==
    /\ target \in Targets
    /\ dirs = target.dirs
    /\ files = target.files
    /\ options = NoOptions
    /\ pc = "existsSync"
    /\ step = 0
    /\ log = << >>
    /\ tasks = << >>
    /\ err = FALSE
    /\ ret = NoRet
    /\ answers = NoAnswers
    /\ exit = Running

\* if (fs.existsSync(projectDir))
ExistsSync ==
    /\ pc = "existsSync"
    /\ pc' = (IF << >> \in dirs THEN "confirm" ELSE "language")
    /\ UNCHANGED <<options, step, dirs, files, log, tasks, err, ret, cliVars>>

\* const shouldContinue = await confirm(...); a refusal ends the process.
Confirm ==
    /\ pc = "confirm"
    /\ \E shouldContinue \in BOOLEAN :
          /\ answers' = Answered("shouldContinue", shouldContinue)
          /\ IF shouldContinue
               THEN pc' = "language" /\ exit' = exit
               ELSE pc' = Declined.pc /\ exit' = Declined.exit
    /\ UNCHANGED <<options, step, dirs, files, log, tasks, err, ret, target>>

\* The confirm prompt rejects (the user closes it): it is awaited before the
\* try block, so createProject itself rejects.
ConfirmThrows ==
    /\ pc = "confirm"
    /\ err' = TRUE
    /\ pc' = "escaped"
    /\ UNCHANGED <<options, step, dirs, files, log, tasks, ret, cliVars>>

\* index.ts: catch (error) { console.error(...); process.exit(1) } around
\* await createProject(projectName).
ActionCatch ==
    /\ pc = "escaped"
    /\ pc' = "exit1"
    /\ exit' = {1}
    /\ UNCHANGED <<options, step, dirs, files, log, tasks, err, ret, answers, target>>

SelectLanguage ==
    /\ pc = "language"
    /\ \E language \in LanguageChoices :
          answers' = Answered("language", language)
    /\ pc' = "framework"
    /\ UNCHANGED <<options, step, dirs, files, log, tasks, err, ret, exit, target>>

SelectFramework ==
    /\ pc = "framework"
    /\ \E framework \in FrameworkChoices :
          answers' = Answered("framework", framework)
    /\ pc' = "database"
    /\ UNCHANGED <<options, step, dirs, files, log, tasks, err, ret, exit, target>>

SelectDatabase ==
    /\ pc = "database"
    /\ \E database \in DatabaseChoices :
          answers' = Answered("database", database)
    /\ pc' = "orm"
    /\ UNCHANGED <<options, step, dirs, files, log, tasks, err, ret, exit, target>>

SelectOrm ==
    /\ pc = "orm"
    /\ \E orm \in OrmChoices :
          answers' = Answered("orm", orm)
    /\ pc' = "features"
    /\ UNCHANGED <<options, step, dirs, files, log, tasks, err, ret, exit, target>>

\* const features = await checkbox(...): any subset of the choices; then
\* let validationLibrary, authStrategy: both undefined.
CheckFeatures ==
    /\ pc = "features"
    /\ \E features \in SUBSET FeatureChoices :
          /\ Cardinality(features) <= MaxFeatures
          /\ answers' = [validationLibrary |-> Undefined, authStrategy |-> Undefined]
                         @@ Answered("features", features)
    /\ pc' = "validationLibrary"
    /\ UNCHANGED <<options, step, dirs, files, log, tasks, err, ret, exit, target>>

\* if (features.includes("validation")) validationLibrary = await select(...)
SelectValidationLibrary ==
    /\ pc = "validationLibrary"
    /\ IF "validation" \in answers.features
         THEN \E validationLibrary \in ValidationLibraryChoices :
                 answers' = [answers EXCEPT !.validationLibrary = validationLibrary]
         ELSE answers' = answers
    /\ pc' = "authStrategy"
    /\ UNCHANGED <<options, step, dirs, files, log, tasks, err, ret, exit, target>>

\* if (features.includes("auth")) authStrategy = await select(...)
SelectAuthStrategy ==
    /\ pc = "authStrategy"
    /\ IF "auth" \in answers.features
         THEN \E authStrategy \in AuthStrategyChoices :
                 answers' = [answers EXCEPT !.authStrategy = authStrategy]
         ELSE answers' = answers
    /\ pc' = "collect"
    /\ UNCHANGED <<options, step, dirs, files, log, tasks, err, ret, exit, target>>

\* A prompt awaited inside the try block rejects: the catch block runs next.
\* The two conditional prompts can reject only when they are shown.
PromptThrows ==
    /\ pc \in TryPrompts
    /\ pc = "validationLibrary" => "validation" \in answers.features
    /\ pc = "authStrategy" => "auth" \in answers.features
    /\ err' = TRUE
    /\ pc' = "rejected"
    /\ UNCHANGED <<options, step, dirs, files, log, tasks, ret, cliVars>>

\* const projectOptions = { name: projectName, language, ... }, handed to
\* generateProject.
CollectOptions ==
    /\ pc = "collect"
    /\ options' = [name |-> ProjectName,
                   language |-> answers.language,
                   framework |-> answers.framework,
                   database |-> answers.database,
                   orm |-> answers.orm,
                   features |-> answers.features,
                   validationLibrary |-> answers.validationLibrary,
                   authStrategy |-> answers.authStrategy]
    /\ pc' = "ensureProjectDir"
    /\ UNCHANGED <<step, dirs, files, log, tasks, err, ret, cliVars>>

\* generateProject resolved: the success message is logged, createProject,
\* the action, run and main return, and the process ends with code 0.
Success ==
    /\ pc = "resolved"
    /\ pc' = "done"
    /\ exit' = {0}
    /\ UNCHANGED <<options, step, dirs, files, log, tasks, err, ret, answers, target>>

NextCli ==
    \/ ExistsSync
    \/ Confirm
    \/ ConfirmThrows
    \/ ActionCatch
    \/ SelectLanguage
    \/ SelectFramework
    \/ SelectDatabase
    \/ SelectOrm
    \/ CheckFeatures
    \/ SelectValidationLibrary
    \/ SelectAuthStrategy
    \/ PromptThrows
    \/ CollectOptions
    \/ EnsureProjectDir
    \/ EnsureProjectDirFail
    \/ DispatchDirs
    \/ \E d \in DOMAIN tasks : DirDone(d)
    \/ \E d \in DOMAIN tasks : DirFail(d)
    \/ DirsReady
    \/ Write
    \/ WriteFail
    \/ Finish
    \/ CreateProjectCatch
    \/ Success

SpecCli == InitCli /\ [][NextCli]_vars

(***************************************************************************)
(* Vocabulary of the properties                                            *)
(***************************************************************************)
\* The consistency invariants of the configuration model.
IsConsistent(o) ==
    /\ (o.validationLibrary # Undefined) <=> ("validation" \in o.features)
    /\ (o.authStrategy # Undefined) <=> ("auth" \in o.features)
    /\ o.orm = "none" => o.database = "none"
    /\ o.database = "mongodb" => o.orm = "mongoose"

\* The step of the orchestrator's sequence a written path belongs to:
\* 3 manifest, 4 environment files and ignore file, 5 everything else.
StageOf(path) ==
    IF path = <<"package.json">> THEN 3
    ELSE IF path \in { <<".env">>, <<".env.example">>, <<".gitignore">> } THEN 4
    ELSE 5

\* Position of a remaining artifact in the order readme, entry point,
\* controller, route, model (0 for a path outside that list).
ArtifactRank(path) ==
    IF path = <<"README.md">> THEN 1
    ELSE IF path \in { <<"src", "index.ts">>, <<"src", "index.js">> } THEN 2
    ELSE IF path = <<"src", "controllers", "example.controller.ts">> THEN 3
    ELSE IF path = <<"src", "routes", "example.routes.ts">> THEN 4
    ELSE IF path = <<"src", "models", "example.model.ts">> THEN 5
    ELSE 0

IsPrefix(p, q) == Len(p) <= Len(q) /\ SubSeq(q, 1, Len(p)) = p

EnvPaths == { <<".env">>, <<".env.example">> }

IndexPaths == { <<"src", "index.ts">>, <<"src", "index.js">> }

\* The text artifacts (package.json and tsconfig.json are JSON objects).
JsonPaths == { <<"package.json">>, <<"tsconfig.json">> }

AuthPackages ==
    {"passport", "express-session", "connect-mongo", "passport-jwt",
     "jsonwebtoken", "passport-local", "passport-google-oauth20",
     "passport-github2", "bcrypt"}

AuthImportLines ==
    {"import passport from 'passport';",
     "import session from 'express-session';",
     "import MongoStore from 'connect-mongo';"}

JwtEnvLines == {"JWT_SECRET=your-secret-key", "JWT_EXPIRES_IN=1d"}

SessionEnvLine == "SESSION_SECRET=your-session-secret"

OAuthEnvLines ==
    {"GOOGLE_CLIENT_ID=your-google-client-id",
     "GOOGLE_CLIENT_SECRET=your-google-client-secret",
     "GITHUB_CLIENT_ID=your-github-client-id",
     "GITHUB_CLIENT_SECRET=your-github-client-secret"}

\* Every generated line that names an auth package or an auth variable.
AuthLines ==
    AuthImportLines \cup JwtEnvLines \cup {SessionEnvLine} \cup OAuthEnvLines
    \cup {"  secret: process.env.SESSION_SECRET || 'your-secret-key',",
          "app.use(session({",
          "app.use(passport.initialize());",
          "app.use(passport.session());",
          "# Authentication",
          "# OAuth Configuration"}

TypeDefinitionPackages == {"@types/node", "@types/jest", "@types/supertest"}

\* The directories of the run's tree, projectDir itself left out.
CreatedDirs == dirs \ { << >> }

(***************************************************************************)
(* C1: no file is written before projectDir and every directory of the     *)
(* dirs array exist (every ensureDir handed to Promise.all has finished),  *)
(* and the writes come in the order manifest, then the environment file,   *)
(* its example copy and the ignore file, then the remaining artifacts, of  *)
(* which readme, entry point, controller, route and model come in that     *)
(* order; no path is written twice.                                        *)
(***************************************************************************)
C1_WritesAfterDirsInOrder ==
    /\ log # << >> =>
          /\ << >> \in dirs
          /\ ProjectDirs(options) \subseteq dirs
          /\ DOMAIN tasks = ProjectDirs(options)
          /\ \A d \in DOMAIN tasks : tasks[d] = "done"
    /\ \A i, j \in DOMAIN log :
          i < j =>
             /\ log[i] # log[j]
             /\ StageOf(log[i]) <= StageOf(log[j])
             /\ (ArtifactRank(log[i]) > 0 /\ ArtifactRank(log[j]) > 0)
                   => ArtifactRank(log[i]) < ArtifactRank(log[j])
    /\ \A i \in DOMAIN log : Parent(log[i]) \in dirs

\* A run that wrote all ten files of a project with a database.
C1_Witness ==
    /\ pc = "resolved"
    /\ Len(log) = 10
    /\ log[1] = <<"package.json">>
    /\ log[10] = <<"src", "models", "example.model.ts">>
    /\ "tests" \in options.features

(***************************************************************************)
(* C2: once an I/O call of generateProject has thrown, no write is         *)
(* performed any more, the files written before stay as they are, and the  *)
(* run is in the hands of the caller (generateProject has rejected).       *)
(***************************************************************************)
C2_FailureAbortsNoRollback ==
    [][err' => /\ files' = files
               /\ log' = log
               /\ step' = step
               /\ pc' \in {"rejected", "exit1"}]_vars

\* A write failed after some, not all, writes: the earlier files are there.
C2_Witness ==
    /\ pc = "exit1"
    /\ err
    /\ Len(log) = 4
    /\ step = 4
    /\ DOMAIN files = Range(log)
    /\ <<"package.json">> \in DOMAIN files

(***************************************************************************)
(* C3: for options that violate the consistency invariants, the dependency *)
(* resolver and the synthesizer raise an error and return nothing.         *)
(***************************************************************************)
C3_InconsistentOptionsRaise ==
    (pc = "returned" /\ ~IsConsistent(options)) => ret.outcome = "threw"

(***************************************************************************)
(* C4: without auth in features no generated artifact holds an auth        *)
(* import, an auth environment variable or an auth dependency; with auth   *)
(* the environment files hold JWT_SECRET and JWT_EXPIRES_IN, hold          *)
(* SESSION_SECRET exactly when authStrategy is session or oauth, and hold  *)
(* the four OAuth lines exactly when authStrategy is oauth.                *)
(***************************************************************************)
C4_AuthArtifactsFollowFeatures ==
    /\ (ret.fn = "files" /\ "auth" \notin options.features) =>
          \A i \in DOMAIN ret.value :
             LET w == ret.value[i]
             IN  IF w.path = <<"package.json">>
                   THEN /\ DOMAIN w.content.dependencies \cap AuthPackages = {}
                        /\ DOMAIN w.content.devDependencies \cap AuthPackages = {}
                 ELSE IF w.path \in JsonPaths
                   THEN TRUE
                 ELSE Range(w.content) \cap AuthLines = {}
    /\ (ret.fn \in {"getDependencies", "getDevDependencies"}
          /\ "auth" \notin options.features) =>
          DOMAIN ret.value \cap AuthPackages = {}
    /\ (ret.fn = "files" /\ "auth" \in options.features) =>
          \A p \in EnvPaths :
             \E i \in DOMAIN ret.value :
                /\ ret.value[i].path = p
                /\ LET lines == Range(ret.value[i].content)
                   IN  /\ JwtEnvLines \subseteq lines
                       /\ (SessionEnvLine \in lines)
                             <=> (options.authStrategy \in {"session", "oauth"})
                       /\ \A l \in OAuthEnvLines :
                             (l \in lines) <=> (options.authStrategy = "oauth")

\* Both sides occur: oauth auth with all its lines, and a file set without auth.
C4_Witness ==
    /\ ret.fn = "files"
    /\ "auth" \in options.features
    /\ options.authStrategy = "oauth"
    /\ \E i \in DOMAIN ret.value :
          /\ ret.value[i].path = <<".env">>
          /\ OAuthEnvLines \subseteq Range(ret.value[i].content)
          /\ SessionEnvLine \in Range(ret.value[i].content)

(***************************************************************************)
(* C5: with database=none the tree has no src/models directory, no file    *)
(* under src/models, no ORM-named directory; the entry point has no        *)
(* database import and the environment files no MONGODB_URI line.          *)
(***************************************************************************)
C5_NoDatabaseNoModels ==
    options.database = "none" =>
       /\ <<"src", "models">> \notin dirs
       /\ <<"src", "schemas">> \notin dirs
       /\ <<"src", OrmDirName(options.orm)>> \notin dirs
       /\ \A p \in DOMAIN files : ~IsPrefix(<<"src", "models">>, p)
       /\ \A p \in DOMAIN files \cap IndexPaths :
             "import mongoose from 'mongoose';" \notin Range(files[p])
       /\ \A p \in DOMAIN files \cap EnvPaths :
             /\ ("MONGODB_URI=" \o MongoUrl(options)) \notin Range(files[p])
             /\ "# Database Configuration" \notin Range(files[p])

\* A finished run without a database, the ORM still set to mongoose.
C5_Witness ==
    /\ pc = "resolved"
    /\ options.database = "none"
    /\ options.orm = "mongoose"
    /\ Len(log) = 9
    /\ IndexPaths \cap DOMAIN files # {}
    /\ EnvPaths \subseteq DOMAIN files

(***************************************************************************)
(* C6: mongoose is a runtime dependency only when orm=mongoose and         *)
(* database=mongodb.                                                       *)
(***************************************************************************)
C6_MongooseOnlyWithMongodb ==
    (ret.fn = "getDependencies" /\ "mongoose" \in DOMAIN ret.value) =>
       (options.orm = "mongoose" /\ options.database = "mongodb")

(***************************************************************************)
(* C7: the runtime dependencies always hold express and dotenv, and for    *)
(* language=javascript neither manifest holds a type-definition package.   *)
(***************************************************************************)
C7_TypeDefinitionsOnlyForTypescript ==
    /\ ret.fn = "getDependencies" =>
          {"express", "dotenv"} \subseteq DOMAIN ret.value
    /\ (ret.fn \in {"getDependencies", "getDevDependencies"}
          /\ options.language = "javascript") =>
          DOMAIN ret.value \cap TypeDefinitionPackages = {}

(***************************************************************************)
(* C8: no package name is assigned more than once over the assignments of  *)
(* getDependencies and getDevDependencies, and never with two versions.    *)
(***************************************************************************)
C8_NoDuplicateInsertion ==
    pc = "returned" =>
       LET ins == DependencyInsertions(options) \o DevDependencyInsertions(options)
       IN  \A i, j \in DOMAIN ins :
              ins[i].name = ins[j].name =>
                 (i = j /\ ins[i].version = ins[j].version)

(***************************************************************************)
(* C9: after a completed generation tsconfig.json is in the tree if and    *)
(* only if language is typescript.                                         *)
(***************************************************************************)
C9_TsconfigIffTypescript ==
    pc = "resolved" =>
       ((<<"tsconfig.json">> \in DOMAIN files) <=> (options.language = "typescript"))

(***************************************************************************)
(* C10: for consistent options a completed generation has created exactly  *)
(* src, src/controllers, src/routes, src/middleware, src/utils and         *)
(* src/config; src/models and src/schemas iff database is not none;        *)
(* src/auth iff auth is selected; tests, tests/unit and tests/integration  *)
(* iff tests is selected.                                                  *)
(***************************************************************************)
C10_ExactDirectorySet ==
    (pc = "resolved" /\ IsConsistent(options)) =>
       CreatedDirs =
          { <<"src">>, <<"src", "controllers">>, <<"src", "routes">>,
            <<"src", "middleware">>, <<"src", "utils">>, <<"src", "config">> }
          \cup (IF options.database # "none"
                  THEN { <<"src", "models">>, <<"src", "schemas">> } ELSE {})
          \cup (IF "auth" \in options.features THEN { <<"src", "auth">> } ELSE {})
          \cup (IF "tests" \in options.features
                  THEN { <<"tests">>, <<"tests", "unit">>, <<"tests", "integration">> }
                  ELSE {})

\* A finished run of consistent options with a database and the tests feature.
C10_Witness ==
    /\ pc = "resolved"
    /\ IsConsistent(options)
    /\ options.database = "mongodb"
    /\ "tests" \in options.features
    /\ <<"src", "schemas">> \in dirs
    /\ <<"tests", "integration">> \in dirs

(***************************************************************************)
(* Vocabulary of the properties about generated text                       *)
(***************************************************************************)
\* The files of a computed file set whose path is in paths.
FilesAt(fileset, paths) == {fileset[i] : i \in {j \in DOMAIN fileset : fileset[j].path \in paths}}

RECURSIVE IsSubseqFrom(_, _, _, _)
\* Whether a[i..] can be had from b[j..] by deleting lines of b.
IsSubseqFrom(a, i, b, j) ==
    IF i > Len(a) THEN TRUE
    ELSE IF j > Len(b) THEN FALSE
    ELSE IF a[i] = b[j] THEN IsSubseqFrom(a, i + 1, b, j + 1)
    ELSE IsSubseqFrom(a, i, b, j + 1)

IsSubseq(a, b) == IsSubseqFrom(a, 1, b, 1)

\* The comment and bullet lines each optional branch of a template owns.
DatabaseBranchLines == {"// Connect to MongoDB", "# Database Configuration"}

AuthBranchLines ==
    {"// Session configuration", "// Initialize Passport", "# Authentication",
     "# OAuth Configuration"}

SwaggerBranchLines == {"// Swagger documentation"}

TestsBranchLines == {"- ~npm test~: Run tests"}

\* The text artifacts the policy names, apart from the manifest.
PolicyPaths == IndexPaths \cup EnvPaths \cup { <<"README.md">> }

\* The options with one more branch selected.
WithDatabase(o) == [o EXCEPT !.database = "mongodb"]

WithFeature(o, f) == [o EXCEPT !.features = @ \cup {f}]

\* Every text artifact of o can be had from the artifact of richer by
\* deleting lines: the branch not selected in o left nothing behind.
OnlyRemovesLines(o, richer) ==
    \A w \in FilesAt(WriteSequence(o), PolicyPaths) :
       \A v \in FilesAt(WriteSequence(richer), {w.path}) :
          IsSubseq(w.content, v.content)

\* The import statements of the templates and the package each one loads.
ImportTable ==
    { [line |-> "import express from 'express';", package |-> "express"],
      [line |-> "import cors from 'cors';", package |-> "cors"],
      [line |-> "import helmet from 'helmet';", package |-> "helmet"],
      [line |-> "import morgan from 'morgan';", package |-> "morgan"],
      [line |-> "import 'dotenv/config';", package |-> "dotenv"],
      [line |-> "import mongoose from 'mongoose';", package |-> "mongoose"],
      [line |-> "import passport from 'passport';", package |-> "passport"],
      [line |-> "import session from 'express-session';", package |-> "express-session"],
      [line |-> "import MongoStore from 'connect-mongo';", package |-> "connect-mongo"],
      [line |-> "import swaggerJSDoc from 'swagger-jsdoc';", package |-> "swagger-jsdoc"],
      [line |-> "import swaggerUi from 'swagger-ui-express';", package |-> "swagger-ui-express"],
      [line |-> "import { Router } from 'express';", package |-> "express"] }

ImportedPackages(content) ==
    {t.package : t \in {u \in ImportTable : u.line \in Range(content)}}

\* The generated source files: entry point, controller, route and model stubs.
SourcePaths ==
    IndexPaths \cup { <<"src", "controllers", "example.controller.ts">>,
                      <<"src", "controllers", "example.controller.js">>,
                      <<"src", "routes", "example.routes.ts">>,
                      <<"src", "routes", "example.routes.js">>,
                      <<"src", "models", "example.model.ts">>,
                      <<"src", "models", "example.model.js">> }

\* The extension of a source path (its file name after the last dot).
ExtensionOf(path) ==
    IF path[Len(path)] \in {"index.ts", "example.controller.ts",
                            "example.routes.ts", "example.model.ts"}
      THEN ".ts"
      ELSE ".js"

\* The package that provides the command a script of the manifest starts
\* with ("none" for node and echo, which no package of the manifest provides).
ScriptTool(script) ==
    IF script \in {"ts-node-dev --respawn --transpile-only src/index.ts",
                   "ts-node-dev --respawn --transpile-only src/index.js"}
      THEN "ts-node-dev"
    ELSE IF script \in {"nodemon src/index.js", "nodemon src/index.ts"} THEN "nodemon"
    ELSE IF script = "tsc" THEN "typescript"
    ELSE IF script = "jest" THEN "jest"
    ELSE "none"

(***************************************************************************)
(* C11: an option that is not selected (database=none; auth, swagger or    *)
(* tests not in features) contributes no line to the entry point, the      *)
(* readme and the environment files: none of the comment lines of its      *)
(* branch, and no blank placeholder line, so that each of these artifacts  *)
(* can be had from the artifact with the option selected by deleting       *)
(* lines; the manifest gains no dependency either.                         *)
(***************************************************************************)
C11_DisabledBranchLeavesNoLine ==
    ret.fn = "files" =>
       /\ \A w \in FilesAt(ret.value, PolicyPaths) :
             /\ options.database = "none"
                   => Range(w.content) \cap DatabaseBranchLines = {}
             /\ "auth" \notin options.features
                   => Range(w.content) \cap AuthBranchLines = {}
             /\ "swagger" \notin options.features
                   => Range(w.content) \cap SwaggerBranchLines = {}
             /\ "tests" \notin options.features
                   => Range(w.content) \cap TestsBranchLines = {}
       /\ options.database = "none" => OnlyRemovesLines(options, WithDatabase(options))
       /\ \A f \in {"auth", "swagger", "tests"} \ options.features :
             /\ OnlyRemovesLines(options, WithFeature(options, f))
             /\ DOMAIN getDependencies(options)
                   \subseteq DOMAIN getDependencies(WithFeature(options, f))

(***************************************************************************)
(* C14: for consistent options every package imported by a generated       *)
(* source file (entry point, route stub, model stub) is a key of the       *)
(* dependencies written to package.json.                                   *)
(***************************************************************************)
C14_ImportsAreDependencies ==
    (ret.fn = "files" /\ IsConsistent(options)) =>
       \A m \in FilesAt(ret.value, { <<"package.json">> }) :
          \A w \in FilesAt(ret.value, SourcePaths) :
             ImportedPackages(w.content) \subseteq DOMAIN m.content.dependencies

\* A consistent file set whose entry point imports the session store and
\* whose model stub imports mongoose.
C14_Witness ==
    /\ ret.fn = "files"
    /\ IsConsistent(options)
    /\ options.authStrategy = "session"
    /\ "swagger" \in options.features
    /\ \E w \in FilesAt(ret.value, IndexPaths) :
          {"connect-mongo", "mongoose", "swagger-jsdoc", "passport"}
             \subseteq ImportedPackages(w.content)
    /\ \E w \in FilesAt(ret.value, { <<"src", "models", "example.model.ts">> }) :
          "mongoose" \in ImportedPackages(w.content)

(***************************************************************************)
(* C16: every tool a script of the generated manifest invokes (the dev     *)
(* runner, the compiler in build, the test runner in test) is a key of the *)
(* dependencies or devDependencies of that manifest.                       *)
(***************************************************************************)
C16_ScriptToolsAreInstalled ==
    ret.fn = "files" =>
       \A m \in FilesAt(ret.value, { <<"package.json">> }) :
          \A s \in {m.content.scripts.start, m.content.scripts.dev,
                    m.content.scripts.build, m.content.scripts.test} :
             ScriptTool(s) # "none" =>
                ScriptTool(s) \in DOMAIN m.content.dependencies
                                    \cup DOMAIN m.content.devDependencies

(***************************************************************************)
(* C17: every generated source file (entry point, controller, route and    *)
(* model stub) has the extension of the selected language: .ts for         *)
(* typescript, .js for javascript.                                         *)
(***************************************************************************)
C17_SourceExtensionFollowsLanguage ==
    ret.fn = "files" =>
       \A w \in FilesAt(ret.value, SourcePaths) :
          ExtensionOf(w.path) = (IF options.language = "typescript" THEN ".ts" ELSE ".js")

(***************************************************************************)
(* C13: every options object createProject builds from the answers to its  *)
(* prompts is consistent: validationLibrary is defined iff validation is   *)
(* in features, authStrategy is defined iff auth is in features, orm=none  *)
(* only with database=none, and mongodb only with mongoose.                *)
(***************************************************************************)
C13_CollectedOptionsConsistent ==
    options # NoOptions =>
       /\ IsConsistent(options)
       /\ options \in ProjectOptions

\* The options built after both conditional prompts were shown.
C13_Witness ==
    /\ pc = "ensureProjectDir"
    /\ options.features = {"auth", "validation"}
    /\ options.validationLibrary = "zod"
    /\ options.authStrategy = "oauth"
    /\ options.database = "mongodb"

(***************************************************************************)
(* C15: the command ends with code 0 once collection and generation have   *)
(* completed, and with code 1 after any error of a prompt or of            *)
(* generation; when projectDir exists and the user declines, the process   *)
(* ends with code 0 and projectDir holds what it held before.              *)
(***************************************************************************)
C15_ExitCodes ==
    /\ exit = {0} <=> pc \in {"done", "cancelled"}
    /\ exit = {1} <=> pc = "exit1"
    /\ pc = "done" =>
          /\ ~err
          /\ options # NoOptions
          /\ step = Len(WriteSequence(options))
          /\ \A i \in 1..step : WriteSequence(options)[i].path \in DOMAIN files
    /\ err => pc \in {"rejected", "escaped", "exit1"}
    /\ pc = "exit1" => err
    /\ ("shouldContinue" \in DOMAIN answers /\ ~answers.shouldContinue) =>
          /\ pc = "cancelled"
          /\ exit = {0}
          /\ << >> \in target.dirs
          /\ dirs = target.dirs
          /\ files = target.files

\* The user declined: the process has ended with code 0 and the manifest
\* projectDir held is still there.
C15_Witness ==
    /\ pc = "cancelled"
    /\ exit = {0}
    /\ "shouldContinue" \in DOMAIN answers
    /\ ~answers.shouldContinue
    /\ files = (<<"package.json">> :> StaleManifest)

(***************************************************************************)
(* generateProject run again against what an earlier run left              *)
(***************************************************************************)
\* Largest number of entries of options.features in the runs that are
\* repeated.
MaxRerunFeatures == 0

RerunOptions ==
    {o \in ProjectOptions :
        /\ IsConsistent(o)
        /\ Cardinality(o.features) <= MaxRerunFeatures}

\* The content of a file that a failed write created and did not fill.
Truncated == << >>

InitRerun ==
    /\ options \in RerunOptions
    /\ pc = "ensureProjectDir"
    /\ step = 0
    /\ dirs = {}
    /\ files = << >>
    /\ log = << >>
    /\ tasks = << >>
    /\ err = FALSE
    /\ ret = NoRet
    /\ answers = NoAnswers
    /\ exit = Running
    /\ target = NoTarget

\* The next write throws after it has created (or emptied) the file.
WriteFailTruncated ==
    /\ pc = "writing"
    /\ step < Len(WriteSequence(options))
    /\ LET w == WriteSequence(options)[step + 1]
       IN  /\ Parent(w.path) \in dirs
           /\ files' = Written(files, [path |-> w.path, content |-> Truncated])
    /\ err' = TRUE
    /\ pc' = AfterWriteError(step).pc
    /\ step' = AfterWriteError(step).step
    /\ UNCHANGED <<options, dirs, log, tasks, ret, cliVars>>

\* The command is started again with the same answers, after a run against
\* an empty target that completed or was aborted among its writes.
Rerun ==
    /\ target = NoTarget
    /\ pc \in {"resolved", "exit1"}
    /\ pc = "exit1" => (DOMAIN tasks # {} /\ AllSettled(tasks))
    /\ target' = [dirs |-> dirs, files |-> files]
    /\ pc' = "ensureProjectDir"
    /\ step' = 0
    /\ log' = << >>
    /\ tasks' = << >>
    /\ err' = FALSE
    /\ exit' = Running
    /\ UNCHANGED <<options, dirs, files, ret, answers>>

NextRerun ==
    \/ EnsureProjectDir
    \/ EnsureProjectDirFail
    \/ DispatchDirs
    \/ \E d \in DOMAIN tasks : DirDone(d)
    \/ \E d \in DOMAIN tasks : DirFail(d)
    \/ DirsReady
    \/ Write
    \/ WriteFail
    \/ WriteFailTruncated
    \/ Finish
    \/ CreateProjectCatch
    \/ Rerun

SpecRerun == InitRerun /\ [][NextRerun]_vars

\* The tree one complete run leaves in an empty target.
FreshDirs(o) == EnsuredDirs(<< >>) \cup UNION {EnsuredDirs(d) : d \in ProjectDirs(o)}

FreshFiles(o) ==
    [p \in {WriteSequence(o)[i].path : i \in DOMAIN WriteSequence(o)} |->
        (CHOOSE w \in Range(WriteSequence(o)) : w.path = p).content]

(***************************************************************************)
(* C12: for consistent options, a run that completes against a target      *)
(* holding what any earlier run with the same options left (complete, or   *)
(* aborted after any number of writes) leaves exactly the tree of one      *)
(* complete run against an empty target: the same directories, the same    *)
(* paths, the same contents.                                               *)
(***************************************************************************)
C12_RerunGivesFreshTree ==
    pc = "resolved" =>
       /\ dirs = FreshDirs(options)
       /\ files = FreshFiles(options)

\* A run has completed against a target in which an aborted run had left
\* three files, the last of them truncated.
C12_Witness ==
    /\ pc = "resolved"
    /\ Cardinality(DOMAIN target.files) = 3
    /\ \E p \in DOMAIN target.files : target.files[p] = Truncated
    /\ files = FreshFiles(options)
    /\ files # target.files

====
